---- MODULE Spec2Model ----
(***************************************************************************)
(* Day 7 "Some Assembly Required": the statement parser (parse_line,       *)
(* classify_inputs), the gate algebra (Gate.resolve_output_value) and the  *)
(* resolution loop (resolve_wire_values) of src/src/day7/main.py.          *)
(*                                                                         *)
(* A text is a sequence of lines, a line a sequence of tokens.  A token is *)
(* a maximal run of non-blank characters, classified the way the regular   *)
(* expressions of parse_line classify it: a wire name ([a-z]+), a run of   *)
(* decimal digits (\d+, kept as its digits so that int() is a conversion), *)
(* or anything else (the keywords AND, OR, ..., the arrow, garbage).       *)
(*                                                                         *)
(* resolve_wire_values is called twice: on a text, and then on the same    *)
(* lines in another order or with the operands of an AND/OR exchanged, so  *)
(* that two runs can be compared.  Within a run the iteration order of     *)
(* Python sets (unresolved_gates, wire_inputs, static_inputs) is arbitrary *)
(* and is modelled as a free choice.                                       *)
(*                                                                         *)
(* GateSpec applies the methods of NotGate, LShiftGate and RShiftGate on   *)
(* their own to 16-bit values.                                             *)
(***************************************************************************)
EXTENDS Integers, Sequences, FiniteSets, TLC

\* Longest text whose lines are enumerated exhaustively from Statements.
MaxLines == 3

\* the largest shift amount the shift gates are applied with
MaxShift == 16

\* Longest line whose tokens are enumerated exhaustively from LineTokens.
MaxTokens == 5

\* Longest string of day 1, enumerated exhaustively from Chars.
MaxChars == 6

\* Number of columns of the grid of day 6 (the grid is SizeX by 2).
SizeX == 2

\* ------------------------------------------------------------------------
\* Values (src/src/day7/main.py:104-114)

\* the bound taken as the number of values instead of the largest value
MAX_VALUE_OffByOne == 2^16

\* MAX_VALUE: Value = 2**16 - 1
MAX_VALUE == 2^16 - 1

\* Python's a & b on arbitrary-precision two's complement integers.
RECURSIVE BitAnd(_, _)
BitAnd(a, b) ==
    IF a = 0 \/ b = 0 THEN 0
    ELSE IF a = -1 THEN b
    ELSE IF b = -1 THEN a
    ELSE (a % 2) * (b % 2) + 2 * BitAnd(a \div 2, b \div 2)

\* Python's a | b on arbitrary-precision two's complement integers.
RECURSIVE BitOr(_, _)
BitOr(a, b) ==
    IF a = 0 THEN b
    ELSE IF b = 0 THEN a
    ELSE IF a = -1 \/ b = -1 THEN -1
    ELSE (IF a % 2 = 1 \/ b % 2 = 1 THEN 1 ELSE 0)
         + 2 * BitOr(a \div 2, b \div 2)

\* Python's a << k and a >> k.
ShiftLeft(a, k) == a * 2^k
ShiftRight(a, k) == a \div 2^k

\* ------------------------------------------------------------------------
\* Tokens and lines

\* a token matching wire = r"[a-z]+"
W(name) == [k |-> "wire", s |-> name, d |-> << >>]
\* a token matching value = r"\d+", as its sequence of decimal digits
N(digits) == [k |-> "num", s |-> "", d |-> digits]
\* any other token: a keyword, the arrow, or something unrecognised
K(word) == [k |-> "kw", s |-> word, d |-> << >>]

Arrow == K("->")

\* a conversion that reads the digits from the right
RECURSIVE IntOf_RightToLeft(_)
IntOf_RightToLeft(digits) ==
    IF digits = << >> THEN 0
    ELSE 10 * IntOf_RightToLeft(SubSeq(digits, 2, Len(digits))) + digits[1]

\* int(value) for a string of decimal digits
RECURSIVE IntOf(_)
IntOf(digits) ==
    IF digits = << >> THEN 0
    ELSE 10 * IntOf(SubSeq(digits, 1, Len(digits) - 1)) + digits[Len(digits)]

\* the pattern "value"
IsValue(t) == t.k = "num"
\* the pattern "wire"
IsWire(t) == t.k = "wire"
\* the pattern "input": (?:wire)|(?:value)
IsInput(t) == IsWire(t) \/ IsValue(t)

\* ------------------------------------------------------------------------
\* Gates (frozen dataclasses, compared by class and by field values)

MkGate(kind, wire_inputs, static_inputs, output, shift_amount) ==
    [kind |-> kind, wire_inputs |-> wire_inputs,
     static_inputs |-> static_inputs, output |-> output,
     shift_amount |-> shift_amount]

\* classify_inputs(*inputs): the wire set and the value set of the tokens
classify_inputs(inputs) ==
    [wire_set  |-> {inputs[j].s : j \in {n \in DOMAIN inputs : ~IsValue(inputs[n])}},
     value_set |-> {IntOf(inputs[j].d) : j \in {n \in DOMAIN inputs : IsValue(inputs[n])}}]

GateOf(kind, inputs, output, shift_amount) ==
    LET classified == classify_inputs(inputs) IN
    [tag |-> "gate",
     gate |-> MkGate(kind, classified.wire_set, classified.value_set,
                     output, shift_amount)]

\* a parser that tries the connection shape before the literal shape
parse_line_ConnectionFirst(line) ==
    IF Len(line) = 3 /\ IsInput(line[1]) /\ line[2] = Arrow /\ IsWire(line[3])
    THEN GateOf("Connection", <<line[1]>>, line[3].s, 0)
    ELSE IF Len(line) = 3 /\ IsValue(line[1]) /\ line[2] = Arrow /\ IsWire(line[3])
    THEN [tag |-> "value", wire |-> line[3].s, value |-> IntOf(line[1].d)]
    ELSE IF Len(line) = 5 /\ IsInput(line[1]) /\ line[2] = K("AND")
            /\ IsInput(line[3]) /\ line[4] = Arrow /\ IsWire(line[5])
    THEN GateOf("And", <<line[1], line[3]>>, line[5].s, 0)
    ELSE IF Len(line) = 5 /\ IsInput(line[1]) /\ line[2] = K("OR")
            /\ IsInput(line[3]) /\ line[4] = Arrow /\ IsWire(line[5])
    THEN GateOf("Or", <<line[1], line[3]>>, line[5].s, 0)
    ELSE IF Len(line) = 5 /\ IsInput(line[1]) /\ line[2] = K("LSHIFT")
            /\ IsValue(line[3]) /\ line[4] = Arrow /\ IsWire(line[5])
    THEN GateOf("LShift", <<line[1]>>, line[5].s, IntOf(line[3].d))
    ELSE IF Len(line) = 5 /\ IsInput(line[1]) /\ line[2] = K("RSHIFT")
            /\ IsValue(line[3]) /\ line[4] = Arrow /\ IsWire(line[5])
    THEN GateOf("RShift", <<line[1]>>, line[5].s, IntOf(line[3].d))
    ELSE IF Len(line) = 4 /\ line[1] = K("NOT") /\ IsInput(line[2])
            /\ line[3] = Arrow /\ IsWire(line[4])
    THEN GateOf("Not", <<line[2]>>, line[4].s, 0)
    ELSE [tag |-> "error"]

\* parse_line(line): an initial value, a gate, or the ValueError of line 292
parse_line(line) ==
    IF Len(line) = 3 /\ IsValue(line[1]) /\ line[2] = Arrow /\ IsWire(line[3])
    THEN [tag |-> "value", wire |-> line[3].s, value |-> IntOf(line[1].d)]
    ELSE IF Len(line) = 3 /\ IsInput(line[1]) /\ line[2] = Arrow /\ IsWire(line[3])
    THEN GateOf("Connection", <<line[1]>>, line[3].s, 0)
    ELSE IF Len(line) = 5 /\ IsInput(line[1]) /\ line[2] = K("AND")
            /\ IsInput(line[3]) /\ line[4] = Arrow /\ IsWire(line[5])
    THEN GateOf("And", <<line[1], line[3]>>, line[5].s, 0)
    ELSE IF Len(line) = 5 /\ IsInput(line[1]) /\ line[2] = K("OR")
            /\ IsInput(line[3]) /\ line[4] = Arrow /\ IsWire(line[5])
    THEN GateOf("Or", <<line[1], line[3]>>, line[5].s, 0)
    ELSE IF Len(line) = 5 /\ IsInput(line[1]) /\ line[2] = K("LSHIFT")
            /\ IsValue(line[3]) /\ line[4] = Arrow /\ IsWire(line[5])
    THEN GateOf("LShift", <<line[1]>>, line[5].s, IntOf(line[3].d))
    ELSE IF Len(line) = 5 /\ IsInput(line[1]) /\ line[2] = K("RSHIFT")
            /\ IsValue(line[3]) /\ line[4] = Arrow /\ IsWire(line[5])
    THEN GateOf("RShift", <<line[1]>>, line[5].s, IntOf(line[3].d))
    ELSE IF Len(line) = 4 /\ line[1] = K("NOT") /\ IsInput(line[2])
            /\ line[3] = Arrow /\ IsWire(line[4])
    THEN GateOf("Not", <<line[2]>>, line[4].s, 0)
    ELSE [tag |-> "error"]

\* the tuple unpacking "(a,) = values" / "a, b = values" succeeds
Unpacks(gate, values) ==
    Len(values) = (IF gate.kind \in {"And", "Or"} THEN 2 ELSE 1)

\* ConnectionGate.resolve_output_value
ConnectionGate_resolve_output_value(values) == values[1]

\* an AND gate that returns one of its operands
AndGate_FirstOperand(values) == values[1]

\* AndGate.resolve_output_value
AndGate_resolve_output_value(values) == BitAnd(values[1], values[2])

\* an OR gate that passes its first operand on
OrGate_FirstOperand(values) == values[1]

\* OrGate.resolve_output_value
OrGate_resolve_output_value(values) == BitOr(values[1], values[2])

\* a left shift whose result is not masked to 16 bits
LShiftGate_Unmasked(shift_amount, values) == ShiftLeft(values[1], shift_amount)

\* a left shift that masks its operand, not its result
LShiftGate_MaskFirst(shift_amount, values) ==
    ShiftLeft(BitAnd(values[1], MAX_VALUE), shift_amount)

\* a left shift reduced modulo MAX_VALUE
LShiftGate_Modulo(shift_amount, values) ==
    ShiftLeft(values[1], shift_amount) % MAX_VALUE

\* LShiftGate.resolve_output_value
LShiftGate_resolve_output_value(shift_amount, values) ==
    BitAnd(ShiftLeft(values[1], shift_amount), MAX_VALUE)

\* a right shift that rounds up
RShiftGate_RoundsUp(shift_amount, values) ==
    (values[1] + 2^shift_amount - 1) \div 2^shift_amount

\* RShiftGate.resolve_output_value
RShiftGate_resolve_output_value(shift_amount, values) ==
    ShiftRight(values[1], shift_amount)

\* Python's ~a, the complement of an int of any size
NotGate_Complement(values) == 0 - values[1] - 1

\* NotGate.resolve_output_value
NotGate_resolve_output_value(values) == MAX_VALUE - values[1]

\* gate.resolve_output_value(*values), dispatched on the class of the gate,
\* when the unpacking succeeds
resolve_output_value(gate, values) ==
    CASE gate.kind = "Connection" -> ConnectionGate_resolve_output_value(values)
      [] gate.kind = "And"    -> AndGate_resolve_output_value(values)
      [] gate.kind = "Or"     -> OrGate_resolve_output_value(values)
      [] gate.kind = "LShift" ->
            LShiftGate_resolve_output_value(gate.shift_amount, values)
      [] gate.kind = "RShift" ->
            RShiftGate_resolve_output_value(gate.shift_amount, values)
      [] gate.kind = "Not"    -> NotGate_resolve_output_value(values)

\* ------------------------------------------------------------------------
\* The texts resolve_wire_values is run on

\* test_part1's simple_circuit
simple_circuit ==
    << <<N(<<1,2,3>>), Arrow, W("x")>>,
       <<N(<<4,5,6>>), Arrow, W("y")>>,
       <<W("x"), K("AND"), W("y"), Arrow, W("d")>>,
       <<W("x"), K("OR"), W("y"), Arrow, W("e")>>,
       <<W("x"), K("LSHIFT"), N(<<2>>), Arrow, W("f")>>,
       <<W("y"), K("RSHIFT"), N(<<2>>), Arrow, W("g")>>,
       <<K("NOT"), W("x"), Arrow, W("h")>>,
       <<K("NOT"), W("y"), Arrow, W("i")>> >>

\* test_part1's expected_signals
expected_signals ==
    [w \in {"d", "e", "f", "g", "h", "i", "x", "y"} |->
        CASE w = "d" -> 72    [] w = "e" -> 507   [] w = "f" -> 492
          [] w = "g" -> 114   [] w = "h" -> 65412 [] w = "i" -> 65079
          [] w = "x" -> 123   [] w = "y" -> 456]

\* The lines the enumerated texts are made of.
Statements ==
    { <<N(<<1,2,3>>), Arrow, W("x")>>,                       \* 123 -> x
      <<N(<<0,7>>), Arrow, W("x")>>,                         \* 07 -> x
      <<W("x"), Arrow, W("y")>>,                             \* x -> y
      <<W("x"), K("AND"), W("y"), Arrow, W("x")>>,           \* x AND y -> x
      <<W("x"), K("OR"), N(<<6,5,5,3,6>>), Arrow, W("z")>>,  \* x OR 65536 -> z
      <<N(<<3>>), K("LSHIFT"), N(<<1,5>>), Arrow, W("z")>>,  \* 3 LSHIFT 15 -> z
      <<N(<<7>>), K("AND"), N(<<0,7>>), Arrow, W("z")>>,     \* 7 AND 07 -> z
      <<W("foo"), K("BAND"), W("bar"), Arrow, W("baz")>> }   \* foo BAND bar -> baz

\* circuits with a gate whose two operands are the same token
repeated_operand_circuits ==
    { << <<N(<<1,2,3>>), Arrow, W("x")>>,                    \* 123 -> x
         <<W("x"), K("AND"), W("x"), Arrow, W("z")>> >>,     \* x AND x -> z
      << <<N(<<1,2,3>>), Arrow, W("x")>>,                    \* 123 -> x
         <<W("x"), K("OR"), W("x"), Arrow, W("z")>> >>,      \* x OR x -> z
      << <<N(<<5>>), K("AND"), N(<<5>>), Arrow, W("z")>> >> } \* 5 AND 5 -> z

\* every text of at most MaxLines lines over Statements, the fixture, and
\* the circuits with a repeated operand
Texts ==
    UNION {[1..n -> Statements] : n \in 0..MaxLines}
    \cup {simple_circuit} \cup repeated_operand_circuits

\* the rearrangements of an n-line text that the second run is given: the
\* text itself, the text with two lines exchanged, and the text rotated.
\* For up to three lines these are all the permutations; for more, every
\* permutation is a product of exchanges, and the enumerated texts include
\* every order of their lines as a first text.
Rearrangements(n) ==
    {[j \in 1..n |-> IF j = a THEN b ELSE IF j = b THEN a ELSE j] :
        a \in 1..n, b \in 1..n}
    \cup {[j \in 1..n |-> ((j + r - 1) % n) + 1] : r \in 1..n}

\* the statement with the operands of its AND or OR exchanged
SwapOperands(line) ==
    IF Len(line) = 5 /\ line[2] \in {K("AND"), K("OR")}
    THEN <<line[3], line[2], line[1], line[4], line[5]>>
    ELSE line

\* the texts the second run is given for a first text t: its rearrangements,
\* and t with the operands of one AND or OR statement exchanged
Rewritings(t) ==
    {[j \in 1..Len(t) |-> t[p[j]]] : p \in Rearrangements(Len(t))}
    \cup {[t EXCEPT ![j] = SwapOperands(t[j])] : j \in 1..Len(t)}

\* ------------------------------------------------------------------------
\* State

VARIABLES
    text,              \* the text of the first run
    run,               \* 1 or 2: which call of resolve_wire_values this is
    first,             \* what the first call handed to its caller
    input,             \* the lines of the text of the current call
    pc,                \* where the current call is
    i,                 \* index of the next line to parse
    initial_values,    \* list of (wire, value) pairs
    unresolved_gates,  \* set of gates
    wire_values,       \* the dict wire -> value (EmptyMap before line 316)
    calls,             \* gate -> number of resolve_output_value calls on it
    err,               \* the line carried by the parse error
    op,                \* the gate methods applied to arg so far
    arg,               \* the value a gate method is applied to
    amount,            \* the shift_amount of the shift gates applied
    out,               \* what the first method applied returned
    back,              \* what the method applied to out returned
    directions,        \* day 1: the string part2 is called with
    floor,             \* day 1: part2's floor
    index,             \* day 1: index of the last character consumed
    position,          \* day 1: the index part2 returned
    walk,              \* day 1: where the call of part2 is
    lights,            \* day 6: the grid
    before,            \* day 6: the grid before the last instruction
    instruction,       \* day 6: the last instruction string
    status             \* day 6: how the last call ended

\* the state of a gate method applied on its own
gatevars == <<op, arg, amount, out, back>>

\* the state of day 1's part2
day1vars == <<directions, floor, index, position, walk>>

\* the state of day 6's grid
day6vars == <<lights, before, instruction, status>>

vars == <<text, run, first, input, pc, i, initial_values, unresolved_gates,
          wire_values, calls, err, op, arg, amount, out, back,
          directions, floor, index, position, walk,
          lights, before, instruction, status>>

EmptyMap == [w \in {} |-> 0]
NoLine == << >>

\* no call of resolve_wire_values, of a gate method, of day 1's part2 or
\* of day 6's perform_instruction is under way
ResolverIdle ==
    /\ text = << >> /\ input = << >> /\ run = 1
    /\ first = [kind |-> "none", map |-> EmptyMap]
    /\ pc = "parse" /\ i = 1
    /\ initial_values = << >> /\ unresolved_gates = {}
    /\ wire_values = EmptyMap /\ calls = EmptyMap /\ err = NoLine
GateIdle ==
    op = "none" /\ arg = 0 /\ amount = 0 /\ out = 0 /\ back = 0
Day1Idle ==
    /\ directions = << >> /\ floor = 0 /\ index = 0
    /\ position = 0 /\ walk = "idle"
Day6Idle ==
    /\ lights = EmptyMap /\ before = EmptyMap
    /\ instruction = [kind |-> "", point1 |-> <<0, 0>>, point2 |-> <<0, 0>>]
    /\ status = "idle"

\* a dict built from all pairs but the last
RECURSIVE Dict_DropLast(_)
Dict_DropLast(pairs) ==
    IF Len(pairs) <= 1 THEN [w \in {} |-> 0]
    ELSE LET rest == Dict_DropLast(SubSeq(pairs, 1, Len(pairs) - 1))
             last == pairs[Len(pairs) - 1]
         IN  [w \in DOMAIN rest \cup {last[1]} |->
                IF w = last[1] THEN last[2] ELSE rest[w]]

\* dict(initial_values): a later pair for the same wire replaces an earlier one
RECURSIVE Dict(_)
Dict(pairs) ==
    IF pairs = << >> THEN EmptyMap
    ELSE LET rest == Dict(SubSeq(pairs, 1, Len(pairs) - 1))
             last == pairs[Len(pairs)]
         IN  [w \in DOMAIN rest \cup {last[1]} |->
                IF w = last[1] THEN last[2] ELSE rest[w]]

\* an assignment that replaces the dict by one holding the new item only
SetItem_Fresh(map, key, value) == [w \in {key} |-> value]

\* an assignment that is not made
SetItem_Skip(map, key, value) == map

\* wire_values[key] = value (line 339)
SetItem(map, key, value) ==
    [w \in DOMAIN map \cup {key} |-> IF w = key THEN value ELSE map[w]]

\* a removal that leaves the set as it was
Remove_Nothing(gates, gate) == gates

\* unresolved_gates.remove(gate) (line 342)
Remove(gates, gate) == gates \ {gate}

\* wire_values[wire] succeeds for every wire of the set
HasKeys(map, wires) == \A wire \in wires : wire \in DOMAIN map

\* a scan that takes a gate as soon as one of its input wires has a value
Eligible_AnyWire(gate) ==
    \/ gate.wire_inputs = {}
    \/ gate.wire_inputs \cap DOMAIN wire_values # {}

\* gate.wire_inputs.issubset(wire_values.keys())
Eligible(gate) == gate.wire_inputs \subseteq DOMAIN wire_values

\* all orders in which the elements of a set can be iterated
Orders(S) ==
    {q \in [1..Cardinality(S) -> S] :
        \A a, b \in 1..Cardinality(S) : q[a] = q[b] => a = b}

\* the argument lists
\*   *(wire_values[wire] for wire in gate.wire_inputs), *gate.static_inputs
Arguments(gate) ==
    {[j \in 1..Len(ws) |-> wire_values[ws[j]]] \o ss :
        ws \in Orders(gate.wire_inputs), ss \in Orders(gate.static_inputs)}

\* what a call that has ended gives its caller: the dict, or an exception
Outcome ==
    IF pc = "returned" THEN [kind |-> "returned", map |-> wire_values]
    ELSE [kind |-> pc, map |-> EmptyMap]

\* the call is over: it returned, or one of its exceptions left it
Ended ==
    pc \in {"returned", "parse_error", "unsat_error", "unpack_error",
            "key_error"}

Init ==
    /\ text \in Texts
    /\ input = text
    /\ run = 1
    /\ first = [kind |-> "none", map |-> EmptyMap]
    /\ pc = "parse"
    /\ i = 1
    /\ initial_values = << >>
    /\ unresolved_gates = {}
    /\ wire_values = EmptyMap
    /\ calls = EmptyMap
    /\ err = NoLine
    /\ op = "none" /\ arg = 0 /\ amount = 0 /\ out = 0 /\ back = 0
    /\ Day1Idle /\ Day6Idle

\* a parsing loop that keeps a gate only if its input wires already have
\* an initial value when its line is read
ParseLine_InTextOrder ==
    /\ pc = "parse"
    /\ i <= Len(input)
    /\ parse_line(input[i]).tag # "error"
    /\ LET value == parse_line(input[i]) IN
         IF value.tag = "gate"
         THEN /\ unresolved_gates' =
                   IF value.gate.wire_inputs \subseteq
                          {initial_values[j][1] : j \in DOMAIN initial_values}
                   THEN unresolved_gates \cup {value.gate}
                   ELSE unresolved_gates
              /\ UNCHANGED initial_values
         ELSE /\ initial_values' = Append(initial_values, <<value.wire, value.value>>)
              /\ UNCHANGED unresolved_gates
    /\ i' = i + 1
    /\ UNCHANGED <<text, run, first, input, pc, wire_values, calls, err>>
    /\ UNCHANGED <<gatevars, day1vars, day6vars>>

\* lines 308-313: one iteration of the parsing loop, parse_line returning
ParseLine ==
    /\ pc = "parse"
    /\ i <= Len(input)
    /\ parse_line(input[i]).tag # "error"
    /\ LET value == parse_line(input[i]) IN
         IF value.tag = "gate"
         THEN /\ unresolved_gates' = unresolved_gates \cup {value.gate}
              /\ UNCHANGED initial_values
         ELSE /\ initial_values' = Append(initial_values, <<value.wire, value.value>>)
              /\ UNCHANGED unresolved_gates
    /\ i' = i + 1
    /\ UNCHANGED <<text, run, first, input, pc, wire_values, calls, err>>
    /\ UNCHANGED <<gatevars, day1vars, day6vars>>

\* a parsing loop that skips a line it cannot parse
ParseError_Skip ==
    /\ pc = "parse"
    /\ i <= Len(input)
    /\ parse_line(input[i]).tag = "error"
    /\ i' = i + 1
    /\ UNCHANGED <<text, run, first, input, pc, initial_values,
                   unresolved_gates, wire_values, calls, err>>
    /\ UNCHANGED <<gatevars, day1vars, day6vars>>

\* lines 309 and 292: parse_line raises, resolve_wire_values propagates it
ParseError ==
    /\ pc = "parse"
    /\ i <= Len(input)
    /\ parse_line(input[i]).tag = "error"
    /\ pc' = "parse_error"
    /\ err' = input[i]
    /\ UNCHANGED <<text, run, first, input, i, initial_values,
                   unresolved_gates, wire_values, calls>>
    /\ UNCHANGED <<gatevars, day1vars, day6vars>>

\* a value map that starts with 0 for every wire a gate reads and no
\* statement has given an initial value
BuildWireValues_ZeroDefaults ==
    /\ pc = "parse"
    /\ i > Len(input)
    /\ wire_values' =
          [w \in DOMAIN Dict(initial_values)
                   \cup UNION {g.wire_inputs : g \in unresolved_gates} |->
             IF w \in DOMAIN Dict(initial_values)
             THEN Dict(initial_values)[w] ELSE 0]
    /\ calls' = [g \in unresolved_gates |-> 0]
    /\ pc' = "loop"
    /\ UNCHANGED <<text, run, first, input, i, initial_values,
                   unresolved_gates, err>>
    /\ UNCHANGED <<gatevars, day1vars, day6vars>>

\* line 316: wire_values = dict(initial_values)
BuildWireValues ==
    /\ pc = "parse"
    /\ i > Len(input)
    /\ wire_values' = Dict(initial_values)
    /\ calls' = [g \in unresolved_gates |-> 0]
    /\ pc' = "loop"
    /\ UNCHANGED <<text, run, first, input, i, initial_values,
                   unresolved_gates, err>>
    /\ UNCHANGED <<gatevars, day1vars, day6vars>>

\* lines 319-342: one iteration of the while loop that finds a gate
ResolveGate ==
    /\ pc = "loop"
    /\ \E gate \in unresolved_gates :
         /\ Eligible(gate)
         /\ IF HasKeys(wire_values, gate.wire_inputs)
            THEN \E values \in Arguments(gate) :
                   /\ calls' = [calls EXCEPT ![gate] = @ + 1]
                   /\ IF Unpacks(gate, values)
                      THEN /\ wire_values' =
                                SetItem(wire_values, gate.output,
                                        resolve_output_value(gate, values))
                           /\ unresolved_gates' =
                                Remove(unresolved_gates, gate)
                           /\ UNCHANGED pc
                      ELSE /\ pc' = "unpack_error"
                           /\ UNCHANGED <<wire_values, unresolved_gates>>
            \* wire_values[wire] on a wire that is no key raises KeyError
            \* while the arguments are built, before the method is called
            ELSE /\ pc' = "key_error"
                 /\ UNCHANGED <<wire_values, unresolved_gates, calls>>
    /\ UNCHANGED <<text, run, first, input, i, initial_values, err>>
    /\ UNCHANGED <<gatevars, day1vars, day6vars>>

\* a scan that also raises when there is no gate left to scan
NoGateFound_EmptyToo ==
    /\ pc = "loop"
    /\ \A gate \in unresolved_gates : ~Eligible(gate)
    /\ pc' = "unsat_error"
    /\ UNCHANGED <<text, run, first, input, i, initial_values,
                   unresolved_gates, wire_values, calls, err>>
    /\ UNCHANGED <<gatevars, day1vars, day6vars>>

\* lines 323-329: the for loop finds no gate, the else branch raises
NoGateFound ==
    /\ pc = "loop"
    /\ unresolved_gates # {}
    /\ \A gate \in unresolved_gates : ~Eligible(gate)
    /\ pc' = "unsat_error"
    /\ UNCHANGED <<text, run, first, input, i, initial_values,
                   unresolved_gates, wire_values, calls, err>>
    /\ UNCHANGED <<gatevars, day1vars, day6vars>>

\* lines 319 and 344: the while condition fails, return wire_values
Return ==
    /\ pc = "loop"
    /\ unresolved_gates = {}
    /\ pc' = "returned"
    /\ UNCHANGED <<text, run, first, input, i, initial_values,
                   unresolved_gates, wire_values, calls, err>>
    /\ UNCHANGED <<gatevars, day1vars, day6vars>>

\* a second call of resolve_wire_values (lines 295-305), on the lines of the
\* first text in another order or with the operands of a gate exchanged
Rerun ==
    /\ run = 1
    /\ Ended
    /\ input' \in Rewritings(text)
    /\ first' = Outcome
    /\ run' = 2
    /\ pc' = "parse"
    /\ i' = 1
    /\ initial_values' = << >>
    /\ unresolved_gates' = {}
    /\ wire_values' = EmptyMap
    /\ calls' = EmptyMap
    /\ err' = NoLine
    /\ UNCHANGED text
    /\ UNCHANGED <<gatevars, day1vars, day6vars>>

Next ==
    \/ ParseLine
    \/ ParseError
    \/ BuildWireValues
    \/ ResolveGate
    \/ NoGateFound
    \/ Return
    \/ Rerun

Spec == Init /\ [][Next]_vars

\* ------------------------------------------------------------------------
\* resolve_wire_values on 123 -> p followed by one line of any tokens

\* the tokens the line is made of
LineTokens ==
    {W("p"), W("q"), N(<<2>>), N(<<0, 2>>),
     K("AND"), K("LSHIFT"), K("RSHIFT"), Arrow}

\* every line of at most MaxTokens tokens
Lines == UNION {[1..n -> LineTokens] : n \in 1..MaxTokens}

LineTexts == {<< <<N(<<1, 2, 3>>), Arrow, W("p")>>, line >> : line \in Lines}

LineInit ==
    /\ text \in LineTexts
    /\ input = text
    /\ run = 1
    /\ first = [kind |-> "none", map |-> EmptyMap]
    /\ pc = "parse"
    /\ i = 1
    /\ initial_values = << >>
    /\ unresolved_gates = {}
    /\ wire_values = EmptyMap
    /\ calls = EmptyMap
    /\ err = NoLine
    /\ op = "none" /\ arg = 0 /\ amount = 0 /\ out = 0 /\ back = 0
    /\ Day1Idle /\ Day6Idle

\* one call of resolve_wire_values
LineNext ==
    \/ ParseLine
    \/ ParseError
    \/ BuildWireValues
    \/ ResolveGate
    \/ NoGateFound
    \/ Return

LineSpec == LineInit /\ [][LineNext]_vars

\* ------------------------------------------------------------------------
\* The gate methods on their own: NotGate, LShiftGate and RShiftGate applied
\* to the values of a wire

\* the values next to a power of two, and the fixture's two signals
Corners ==
    {2^e - 1 : e \in 0..16} \cup {2^e : e \in 0..15}
    \cup {2^e + 1 : e \in 0..15} \cup {123, 456}

\* a << shift_amount is an int of any size in the source; the checker's
\* integers end at 2^31 - 1, so a shift is applied where the product fits
Fits(a, shift_amount) == a <= 2147483647 \div 2^shift_amount

\* every 16-bit value with no shift, the corners with every shift amount
GateInit ==
    /\ \/ arg \in 0..MAX_VALUE /\ amount = 0
       \/ /\ amount \in 1..MaxShift
          /\ arg \in {a \in Corners : Fits(a, amount)}
    /\ op = "none" /\ out = 0 /\ back = 0
    /\ text = << >> /\ input = << >> /\ run = 1
    /\ first = [kind |-> "none", map |-> EmptyMap]
    /\ pc = "parse" /\ i = 1
    /\ initial_values = << >> /\ unresolved_gates = {}
    /\ wire_values = EmptyMap /\ calls = EmptyMap /\ err = NoLine
    /\ Day1Idle /\ Day6Idle

resolvervars ==
    <<text, run, first, input, pc, i, initial_values, unresolved_gates,
      wire_values, calls, err>>

\* NotGate.resolve_output_value(arg)
ApplyNotGate ==
    /\ op = "none"
    /\ out' = NotGate_resolve_output_value(<<arg>>)
    /\ op' = "Not"
    /\ UNCHANGED <<arg, amount, back, resolvervars, day1vars, day6vars>>

\* NotGate.resolve_output_value on what the first NotGate returned
ApplyNotGateAgain ==
    /\ op = "Not"
    /\ back' = NotGate_resolve_output_value(<<out>>)
    /\ op' = "NotNot"
    /\ UNCHANGED <<arg, amount, out, resolvervars, day1vars, day6vars>>

\* LShiftGate(shift_amount=amount).resolve_output_value(arg)
ApplyLShiftGate ==
    /\ op = "none"
    /\ out' = LShiftGate_resolve_output_value(amount, <<arg>>)
    /\ op' = "LShift"
    /\ UNCHANGED <<arg, amount, back, resolvervars, day1vars, day6vars>>

\* RShiftGate(shift_amount=amount).resolve_output_value on what the
\* LShiftGate returned
ApplyRShiftGateBack ==
    /\ op = "LShift"
    /\ back' = RShiftGate_resolve_output_value(amount, <<out>>)
    /\ op' = "LShiftRShift"
    /\ UNCHANGED <<arg, amount, out, resolvervars, day1vars, day6vars>>

\* RShiftGate(shift_amount=amount).resolve_output_value(arg)
ApplyRShiftGate ==
    /\ op = "none"
    /\ out' = RShiftGate_resolve_output_value(amount, <<arg>>)
    /\ op' = "RShift"
    /\ UNCHANGED <<arg, amount, back, resolvervars, day1vars, day6vars>>

GateNext ==
    \/ ApplyNotGate
    \/ ApplyNotGateAgain
    \/ ApplyLShiftGate
    \/ ApplyRShiftGateBack
    \/ ApplyRShiftGate

GateSpec == GateInit /\ [][GateNext]_vars

\* ------------------------------------------------------------------------
\* Day 1 "Not Quite Lisp" (src/src/day1/main.py): part1 and part2

\* the characters the strings are made of: the two parentheses and another
Chars == {"(", ")", "x"}

\* every string of at most MaxChars characters
Strings == UNION {[1..n -> Chars] : n \in 0..MaxChars}

\* input.count(char)
RECURSIVE Count(_, _)
Count(str, char) ==
    IF str = << >> THEN 0
    ELSE Count(SubSeq(str, 1, Len(str) - 1), char)
         + (IF str[Len(str)] = char THEN 1 ELSE 0)

\* part1(input)
part1(str) == Count(str, "(") - Count(str, ")")

\* a match statement that goes down on every character but "("
Move_ElseDown(char) == IF char = "(" THEN 1 ELSE 0 - 1

\* the match statement of part2: what the character adds to the floor
Move(char) ==
    CASE char = "(" -> 1
      [] char = ")" -> 0 - 1
      [] OTHER -> 0

Day1Init ==
    /\ directions \in Strings
    /\ floor = 0
    /\ index = 0
    /\ position = 0
    /\ walk = "loop"
    /\ ResolverIdle /\ GateIdle /\ Day6Idle

\* one iteration of part2's for loop: the match, then the test of the floor
Part2Step ==
    /\ walk = "loop"
    /\ index < Len(directions)
    /\ index' = index + 1
    /\ floor' = floor + Move(directions[index + 1])
    /\ IF floor' = 0 - 1
       THEN walk' = "returned_index" /\ position' = index + 1
       ELSE UNCHANGED <<walk, position>>
    /\ UNCHANGED <<directions, resolvervars, gatevars, day6vars>>

\* the for loop of part2 is exhausted: return None
Part2ReturnNone ==
    /\ walk = "loop"
    /\ index = Len(directions)
    /\ walk' = "returned_None"
    /\ UNCHANGED <<directions, floor, index, position,
                   resolvervars, gatevars, day6vars>>

Day1Next ==
    \/ Part2Step
    \/ Part2ReturnNone

Day1Spec == Day1Init /\ [][Day1Next]_vars

\* ------------------------------------------------------------------------
\* Day 6 "Probably a Fire Hazard" (src/src/day6/main.py): the grid of
\* lights.  A Pos is a pair <<x, y>>, a grid a function from Pos, an
\* instruction string its three groups: kind, point1 and point2.

\* new_grid(size, initial_state)
new_grid(size, initial_state) ==
    [pos \in (0..(size[1] - 1)) \X (0..(size[2] - 1)) |-> initial_state]

\* the size of the grids: SizeX by 2
GridSize == <<SizeX, 2>>

\* the points of the instruction strings: those of the grid and those one
\* step beyond it in each direction
Points == (0..GridSize[1]) \X (0..GridSize[2])

\* the instruction strings the pattern matches; "dim" is a kind made of
\* word characters that InstructionKind does not have
InstructionStrings ==
    [kind : {"turn on", "turn off", "toggle", "dim"},
     point1 : Points, point2 : Points]

\* two numbers in the order given
Sorted_AsGiven(a, b) == <<a, b>>

\* sorted([a, b])
Sorted(a, b) == IF a <= b THEN <<a, b>> ELSE <<b, a>>

\* parse_instruction(instruction_string): the Instruction, with each range
\* as its first and last element, or the ValueError of InstructionKind(...)
parse_instruction(instruction_string) ==
    LET xs == Sorted(instruction_string.point1[1], instruction_string.point2[1])
        ys == Sorted(instruction_string.point1[2], instruction_string.point2[2])
    IN  IF instruction_string.kind \in {"turn on", "turn off", "toggle"}
        THEN [tag |-> "ok", kind |-> instruction_string.kind,
              x_range |-> xs, y_range |-> ys]
        ELSE [tag |-> "ValueError", kind |-> instruction_string.kind,
              x_range |-> xs, y_range |-> ys]

\* len(range(first, last + 1))
RangeLen(r) == IF r[2] >= r[1] THEN r[2] - r[1] + 1 ELSE 0

\* map(Pos._make, itertools.product(x_range, y_range)), in its order: the
\* y of a position changes fastest
Positions(parsed) ==
    LET ny == RangeLen(parsed.y_range) IN
    [n \in 1..(RangeLen(parsed.x_range) * ny) |->
        <<parsed.x_range[1] + ((n - 1) \div ny),
          parsed.y_range[1] + ((n - 1) % ny)>>]

\* the three for loops of perform_instruction from the n-th position on:
\* grid[pos] = True, grid[pos] = False, grid[pos] = not grid[pos]; reading
\* grid[pos] at a position that is no key raises KeyError
RECURSIVE ForEachPosition(_, _, _, _)
ForEachPosition(kind, grid, positions, n) ==
    IF n > Len(positions) THEN [grid |-> grid, raised |-> "none"]
    ELSE IF kind = "toggle" /\ positions[n] \notin DOMAIN grid
    THEN [grid |-> grid, raised |-> "KeyError"]
    ELSE ForEachPosition(kind,
             SetItem(grid, positions[n],
                     CASE kind = "turn on" -> TRUE
                       [] kind = "turn off" -> FALSE
                       [] kind = "toggle" -> ~grid[positions[n]]),
             positions, n + 1)

\* perform_instruction(instruction_string, grid): the grid it leaves, and
\* the exception that left it, if any
perform_instruction(instruction_string, grid) ==
    LET parsed == parse_instruction(instruction_string) IN
    IF parsed.tag = "ValueError"
    THEN [grid |-> grid, raised |-> "ValueError"]
    ELSE ForEachPosition(parsed.kind, grid, Positions(parsed), 1)

\* a grid of lights in any state, no instruction performed yet
Day6Init ==
    /\ lights \in [DOMAIN new_grid(GridSize, FALSE) -> BOOLEAN]
    /\ before = lights
    /\ instruction = [kind |-> "", point1 |-> <<0, 0>>, point2 |-> <<0, 0>>]
    /\ status = [calls |-> 0, raised |-> "none"]
    /\ ResolverIdle /\ GateIdle /\ Day1Idle

\* perform_instruction(instruction_string, lights)
PerformInstruction ==
    /\ status.calls = 0
    /\ \E instruction_string \in InstructionStrings :
         LET result == perform_instruction(instruction_string, lights) IN
         /\ lights' = result.grid
         /\ before' = lights
         /\ instruction' = instruction_string
         /\ status' = [calls |-> 1, raised |-> result.raised]
    /\ UNCHANGED <<resolvervars, gatevars, day1vars>>

\* perform_instruction with the same instruction string once more
PerformInstructionAgain ==
    /\ status.calls = 1
    /\ LET result == perform_instruction(instruction, lights) IN
         /\ lights' = result.grid
         /\ status' = [calls |-> 2, raised |-> result.raised]
    /\ UNCHANGED <<before, instruction, resolvervars, gatevars, day1vars>>

Day6Next ==
    \/ PerformInstruction
    \/ PerformInstructionAgain

Day6Spec == Day6Init /\ [][Day6Next]_vars

\* Part 2: the lights have a brightness.

\* the brightness of the lights of a grid that toggle instructions for
\* single lights have been performed on
Brightnesses == {0, 2}

\* the three updates without the test of turn off
NewBrightness_Unclamped(kind, brightness) ==
    CASE kind = "turn on" -> brightness + 1
      [] kind = "turn off" -> brightness - 1
      [] kind = "toggle" -> brightness + 2

\* the three updates of perform_instruction2: grid[pos] += 1,
\* if grid[pos] > 0: grid[pos] -= 1, grid[pos] += 2
NewBrightness(kind, brightness) ==
    CASE kind = "turn on" -> brightness + 1
      [] kind = "turn off" -> IF brightness > 0 THEN brightness - 1
                              ELSE brightness
      [] kind = "toggle" -> brightness + 2

\* the three for loops of perform_instruction2 from the n-th position on;
\* each of them reads grid[pos], which raises KeyError at a position that
\* is no key
RECURSIVE ForEachPosition2(_, _, _, _)
ForEachPosition2(kind, grid, positions, n) ==
    IF n > Len(positions) THEN [grid |-> grid, raised |-> "none"]
    ELSE IF positions[n] \notin DOMAIN grid
    THEN [grid |-> grid, raised |-> "KeyError"]
    ELSE ForEachPosition2(kind,
             SetItem(grid, positions[n],
                     NewBrightness(kind, grid[positions[n]])),
             positions, n + 1)

\* perform_instruction2(instruction_string, grid)
perform_instruction2(instruction_string, grid) ==
    LET parsed == parse_instruction(instruction_string) IN
    IF parsed.tag = "ValueError"
    THEN [grid |-> grid, raised |-> "ValueError"]
    ELSE ForEachPosition2(parsed.kind, grid, Positions(parsed), 1)

\* sum(values) over the keys given
RECURSIVE SumOver(_, _)
SumOver(grid, keys) ==
    IF keys = {} THEN 0
    ELSE LET pos == CHOOSE key \in keys : TRUE
         IN  grid[pos] + SumOver(grid, keys \ {pos})

\* total_brightness(lights)
total_brightness(grid) == SumOver(grid, DOMAIN grid)

\* the grid new_grid(size, 0) makes, or one that earlier instructions have
\* brightened: every grid over Brightnesses is what toggle instructions for
\* single lights make of the all-zero grid
Day6Part2Init ==
    /\ lights \in [DOMAIN new_grid(GridSize, 0) -> Brightnesses]
    /\ before = lights
    /\ instruction = [kind |-> "", point1 |-> <<0, 0>>, point2 |-> <<0, 0>>]
    /\ status = [calls |-> 0, raised |-> "none"]
    /\ ResolverIdle /\ GateIdle /\ Day1Idle

\* perform_instruction2(instruction_string, lights)
PerformInstruction2 ==
    /\ status.calls = 0
    /\ \E instruction_string \in InstructionStrings :
         LET result == perform_instruction2(instruction_string, lights) IN
         /\ lights' = result.grid
         /\ before' = lights
         /\ instruction' = instruction_string
         /\ status' = [calls |-> 1, raised |-> result.raised]
    /\ UNCHANGED <<resolvervars, gatevars, day1vars>>

Day6Part2Next == PerformInstruction2

Day6Part2Spec == Day6Part2Init /\ [][Day6Part2Next]_vars

\* ------------------------------------------------------------------------
\* Vocabulary of the properties

\* the wire a parsed statement gives a signal to
Target(v) == IF v.tag = "value" THEN v.wire ELSE v.gate.output

\* the result of parse_line on every line of a text
Parsed(t) == [j \in DOMAIN t |-> parse_line(t[j])]

\* the lines of a text that parse_line accepts
Accepted(t) ==
    LET p == Parsed(t) IN {j \in DOMAIN t : p[j].tag # "error"}

\* "Each wire can only get a signal from one source": two accepted lines
\* with the same target are the same statement
SingleSource(t) ==
    LET p == Parsed(t) IN
    \A a, b \in DOMAIN t :
        (/\ a < b
         /\ p[a].tag # "error" /\ p[b].tag # "error"
         /\ Target(p[a]) = Target(p[b]))
        => (p[a].tag = p[b].tag /\ p[a] = p[b])

\* the gates a text parses to
GatesOf(t) ==
    LET p == Parsed(t) IN
    {p[j].gate : j \in {n \in DOMAIN t : p[n].tag = "gate"}}

\* the second call ends the way the first did: the same dict, or both fail
SameResult ==
    IF first.kind = "returned"
    THEN pc = "returned" /\ wire_values = first.map
    ELSE pc # "returned"

\* ------------------------------------------------------------------------
\* C1: on the lines of simple_circuit, in the order of the test, with two
\* lines exchanged or rotated, and whatever eligible gate each iteration
\* picks, the call raises no error, always finds an eligible gate while one
\* is unresolved, and returns exactly expected_signals.
C1_FixtureSignals ==
    text = simple_circuit =>
        /\ pc \notin {"parse_error", "unsat_error", "unpack_error"}
        /\ (pc = "loop" /\ unresolved_gates # {}) =>
              \E gate \in unresolved_gates :
                  gate.wire_inputs \subseteq DOMAIN wire_values
        /\ pc = "returned" => wire_values = expected_signals

C1_Witness ==
    /\ text = simple_circuit
    /\ run = 2
    /\ input # text
    /\ pc = "returned"
    /\ first.kind = "returned"

\* C2 as stated: two complete runs over the same statements, differing only
\* in the eligible gates picked, return identical maps.
C2_AnyTextSameMap ==
    (run = 2 /\ input = text /\ pc = "returned" /\ first.kind = "returned")
        => wire_values = first.map

\* C2 amended: two complete runs over the same statements return identical
\* maps provided every wire gets its signal from one statement only.
C2_SingleSourceSameMap ==
    (run = 2 /\ input = text /\ pc = "returned" /\ first.kind = "returned"
       /\ SingleSource(text))
        => wire_values = first.map

\* two runs of a single-source text in which two gates were eligible at once
C2_Witness ==
    /\ run = 2 /\ input = text /\ pc = "returned" /\ first.kind = "returned"
    /\ SingleSource(text)
    /\ \E g, h \in GatesOf(text) :
          /\ g # h
          /\ g.wire_inputs \subseteq DOMAIN Dict(initial_values)
          /\ h.wire_inputs \subseteq DOMAIN Dict(initial_values)
          /\ g.wire_inputs # {}

\* C3 as stated: the call on any permutation of the lines ends as the call
\* on the original text did, with the same map or with a failure.
C3_AnyTextPermutation ==
    (run = 2 /\ Ended) => SameResult

\* C3 amended: the call on any permutation of the lines ends as the call on
\* the original text did (same map, or failure in both), provided every wire
\* gets its signal from one statement only.
C3_SingleSourcePermutation ==
    (run = 2 /\ Ended /\ SingleSource(text)) => SameResult

\* a permuted single-source text with a gate listed before its input's value
C3_Witness ==
    /\ run = 2 /\ pc = "returned" /\ input # text
    /\ SingleSource(text)
    /\ \E a, b \in DOMAIN input :
          /\ a < b
          /\ parse_line(input[a]).tag = "gate"
          /\ parse_line(input[b]).tag = "value"
          /\ parse_line(input[b]).wire \in parse_line(input[a]).gate.wire_inputs

\* C4 as stated: every step of the loop keeps every key of the value map
\* and the value it had, whatever the text.
C4_AnyTextMapOnlyGrows ==
    [][(pc = "loop" /\ pc' # "parse") =>
          \A w \in DOMAIN wire_values :
              w \in DOMAIN wire_values' /\ wire_values'[w] = wire_values[w]]_vars

\* C4 amended: every step of the loop keeps every key of the value map and
\* the value it had, provided every wire gets its signal from one statement
\* only.
C4_SingleSourceMapOnlyGrows ==
    [][(pc = "loop" /\ pc' # "parse") =>
          \A w \in DOMAIN wire_values :
              (w \notin DOMAIN wire_values' \/ wire_values'[w] # wire_values[w])
                  => ~SingleSource(input)]_vars

\* a single-source run that has added two gate outputs to an initial value
C4_Witness ==
    /\ SingleSource(input)
    /\ pc = "returned"
    /\ initial_values # << >>
    /\ Cardinality(DOMAIN wire_values) >= 3
    /\ \E g \in GatesOf(input) : g.wire_inputs # {}

\* C5: on a run that returns, every gate the parser produced has had
\* resolve_output_value called on it exactly once; the iteration that calls
\* it removes that gate and no other from unresolved_gates, and no gate ever
\* enters the set once the loop has started.
C5_EachGateOnce ==
    /\ [](pc = "returned" =>
            /\ DOMAIN calls = GatesOf(input)
            /\ \A g \in GatesOf(input) : calls[g] = 1)
    /\ [][(pc = "loop" /\ pc' = "loop") =>
            \E g \in unresolved_gates :
                /\ unresolved_gates' = unresolved_gates \ {g}
                /\ Cardinality(unresolved_gates') = Cardinality(unresolved_gates) - 1
                /\ calls'[g] = calls[g] + 1
                /\ \A h \in DOMAIN calls \ {g} : calls'[h] = calls[h]]_vars
    /\ [][(pc = "loop" /\ pc' # "parse") =>
            /\ unresolved_gates' \subseteq unresolved_gates
            /\ (pc' # "loop" /\ pc' # "unpack_error") => calls' = calls]_vars

\* a run that returned after evaluating three gates
C5_Witness ==
    /\ pc = "returned"
    /\ Cardinality(GatesOf(input)) >= 3
    /\ \A g \in GatesOf(input) : calls[g] = 1

\* every literal assignment of the text is within the 16-bit range
AssignmentsInRange(t) ==
    LET p == Parsed(t) IN
    \A j \in DOMAIN t : p[j].tag = "value" => p[j].value \in 0..65535

\* every literal operand of every gate of the text is within the 16-bit range
OperandsInRange(t) ==
    \A g \in GatesOf(t) : g.static_inputs \subseteq 0..65535

\* C6 as stated: when the literal assignments are within [0, 65535], every
\* value in the map is, in every state, whatever the literal operands of the
\* gates.
C6_AssignmentsInRangeOnly ==
    AssignmentsInRange(input) =>
        \A w \in DOMAIN wire_values : wire_values[w] \in 0..65535

\* C6 amended: when the literal assignments and the literal operands of the
\* gates are all within [0, 65535], every value in the map is within
\* [0, 65535] in every state.
C6_AllLiteralsInRange ==
    \A w \in DOMAIN wire_values :
        (wire_values[w] < 0 \/ wire_values[w] > 65535) =>
            ~(AssignmentsInRange(input) /\ OperandsInRange(input))

\* a left shift of a literal operand whose unmasked result exceeds 16 bits
C6_Witness ==
    /\ AssignmentsInRange(input) /\ OperandsInRange(input)
    /\ pc = "returned"
    /\ \E g \in GatesOf(input) :
          /\ g.kind = "LShift"
          /\ g.static_inputs # {}
          /\ \A v \in g.static_inputs : v * 2^(g.shift_amount) > 65535
          /\ calls[g] = 1
    /\ \E g \in GatesOf(input) : g.kind = "Connection" /\ calls[g] = 1

\* C8 and later: the run is past the parsing loop
PastParsing == pc # "parse"

\* the state of C7: gates remain and none has all its wire operands resolved
Stuck ==
    /\ pc = "loop"
    /\ unresolved_gates # {}
    /\ \A g \in unresolved_gates : ~(g.wire_inputs \subseteq DOMAIN wire_values)

\* C7: from a state of the loop in which gates remain and none has all its
\* wire operands resolved, the only step is the one that raises "No gates
\* found with all resolved inputs", nothing is returned, and that error is
\* raised from no other state.
C7_UnsatisfiableExactlyWhenStuck ==
    /\ [][Stuck => (pc' = "unsat_error" /\ wire_values' = wire_values)]_vars
    /\ [][(pc # "unsat_error" /\ pc' = "unsat_error") => Stuck]_vars
    /\ [](pc = "unsat_error" => Outcome.map = EmptyMap /\ Outcome.kind # "returned")

\* the error raised after part of the circuit was resolved
C7_Witness ==
    /\ pc = "unsat_error"
    /\ \E g \in GatesOf(input) : calls[g] = 1
    /\ unresolved_gates # {}

\* the pairs (g, h) of gates of a text that form the cycle of C8: g is
\* "x AND y -> x" and h produces y from x
CyclePairs(t) ==
    LET gates == GatesOf(t) IN
    {gh \in gates \X gates :
        /\ gh[1].kind = "And"
        /\ gh[1].output \in gh[1].wire_inputs
        /\ gh[2].output \in gh[1].wire_inputs \ {gh[1].output}
        /\ gh[1].output \in gh[2].wire_inputs}

\* no statement other than the two gates gives a signal to a wire of the cycle
OnlySources(t, g, h) ==
    LET p == Parsed(t) IN
    \A j \in DOMAIN t :
        (p[j].tag # "error" /\ Target(p[j]) \in {g.output, h.output}) =>
            (p[j].tag = "gate" /\ p[j].gate \in {g, h})

\* an AND or OR gate whose two operand tokens collapsed into one set entry
Collapsed(g) ==
    /\ g.kind \in {"And", "Or"}
    /\ Cardinality(g.wire_inputs) + Cardinality(g.static_inputs) < 2

\* C8 as stated, for texts whose lines all parse and whose AND/OR gates have
\* two distinct operands: a text with such a cycle never returns a map and
\* always ends in the unsatisfiable-circuit error, whatever other statements
\* it has.
C8_CycleAnyOtherStatements ==
    (/\ CyclePairs(input) # {}
     /\ Accepted(input) = DOMAIN input
     /\ \A k \in GatesOf(input) : ~Collapsed(k))
    => /\ pc # "returned"
       /\ Ended => pc = "unsat_error"

\* C8 amended: a text with such a cycle in which no other statement gives a
\* signal to a wire of the cycle never returns a map and, once parsed, never
\* gives a wire of the cycle a value; it ends in the unsatisfiable-circuit error, or, when
\* a line is malformed or an AND/OR gate has collapsed operands, possibly in
\* the parse error or the unpacking error instead.
C8_CycleNoOtherSource ==
    PastParsing =>
    \A gh \in CyclePairs(input) :
        OnlySources(input, gh[1], gh[2]) =>
            /\ pc # "returned"
            /\ gh[1].output \notin DOMAIN wire_values
            /\ gh[2].output \notin DOMAIN wire_values
            /\ (Ended /\ pc # "unsat_error") =>
                  \/ Accepted(input) # DOMAIN input
                  \/ \E k \in GatesOf(input) : Collapsed(k)

\* the error raised on a cycle after an unrelated gate was evaluated
C8_Witness ==
    /\ pc = "unsat_error"
    /\ \E gh \in CyclePairs(input) :
          /\ OnlySources(input, gh[1], gh[2])
          /\ {gh[1], gh[2]} \subseteq unresolved_gates
    /\ \E k \in GatesOf(input) : calls[k] = 1

\* the example of a malformed line
BandLine == <<W("foo"), K("BAND"), W("bar"), Arrow, W("baz")>>

\* the first line of a text that matches none of the seven shapes
FirstMalformed(t) ==
    CHOOSE m \in DOMAIN t \ Accepted(t) :
        \A n \in DOMAIN t \ Accepted(t) : m <= n

\* C9: a text with a line that matches none of the seven shapes, wherever
\* the line is, never gets past parsing: no value map is built, no gate is
\* evaluated, nothing is returned; parsing stops at the first such line with
\* the parse error that carries that line, and "foo BAND bar -> baz" is such
\* a line.
C9_MalformedLineIsFatal ==
    /\ [](DOMAIN input # Accepted(input) =>
            /\ pc \in {"parse", "parse_error"}
            /\ wire_values = EmptyMap
            /\ calls = EmptyMap
            /\ i <= FirstMalformed(input)
            /\ pc = "parse_error" =>
                  i = FirstMalformed(input) /\ err = input[i])
    /\ []((\E j \in DOMAIN input : input[j] = BandLine) =>
            pc \in {"parse", "parse_error"})
    /\ [](pc = "parse_error" => DOMAIN input # Accepted(input))
    /\ [][(pc = "parse" /\ i \in DOMAIN input \ Accepted(input)) =>
            (pc' = "parse_error" /\ err' = input[i])]_vars

\* the parse error on a malformed last line, after a gate had been parsed
C9_Witness ==
    /\ pc = "parse_error"
    /\ err = BandLine
    /\ i = Len(input)
    /\ i >= 3
    /\ unresolved_gates # {}
    /\ initial_values # << >>

\* C10 as stated: whenever a map is returned, every literal assignment
\* "v -> w" of the text has map[w] = v.
C10_AnyAssignmentKept ==
    pc = "returned" =>
        LET p == Parsed(input) IN
        \A j \in DOMAIN input :
            p[j].tag = "value" =>
                /\ input[j][3].s \in DOMAIN wire_values
                /\ wire_values[input[j][3].s] = IntOf(input[j][1].d)

\* C10 amended: whenever a map is returned, every literal assignment
\* "v -> w" of the text has map[w] = v, provided every statement of the text
\* that gives a signal to w is that same assignment of v to w.
C10_SoleAssignmentKept ==
    pc = "returned" =>
        LET p == Parsed(input) IN
        \A j \in DOMAIN input :
            (/\ p[j].tag = "value"
             /\ \A b \in DOMAIN input :
                   (p[b].tag # "error" /\ Target(p[b]) = input[j][3].s) =>
                       /\ p[b].tag = "value"
                       /\ p[b].value = IntOf(input[j][1].d))
            => /\ input[j][3].s \in DOMAIN wire_values
               /\ wire_values[input[j][3].s] = IntOf(input[j][1].d)

\* a returned map that holds the value of "07 -> x" and a gate's output
C10_Witness ==
    /\ pc = "returned"
    /\ \E j \in DOMAIN input :
          /\ input[j] = <<N(<<0, 7>>), Arrow, W("x")>>
          /\ \A b \in Accepted(input) :
                Target(parse_line(input[b])) = "x" => input[b] = input[j]
    /\ "x" \in DOMAIN wire_values /\ wire_values["x"] = 7
    /\ \E g \in GatesOf(input) : "x" \in g.wire_inputs /\ calls[g] = 1

\* ------------------------------------------------------------------------
\* C11  The ways out of the resolution loop

\* the iterations of the while loop so far: one for every call of a gate
\* method, one for the scan that found no gate, one for a failed lookup
Iterations ==
    Cardinality({g \in DOMAIN calls : calls[g] > 0})
    + (IF pc \in {"unsat_error", "key_error"} THEN 1 ELSE 0)

\* the call has reached the loop
InLoopOrAfter == pc \notin {"parse", "parse_error"}

\* C11: every run of the loop over the parsed gates makes at most as many
\* iterations as there are distinct gates, and leaves the loop in one of two
\* ways only: with an empty unresolved set and the map returned, or with the
\* unsatisfiable-circuit error; there is no other exit.
C11_TwoExitsOnly ==
    InLoopOrAfter =>
        /\ \A g \in DOMAIN calls : calls[g] <= 1
        /\ Iterations <= Cardinality(DOMAIN calls)
        /\ Ended => pc \in {"returned", "unsat_error"}
        /\ pc = "returned" => unresolved_gates = {}
        /\ pc = "unsat_error" => Outcome.map = EmptyMap

\* ------------------------------------------------------------------------
\* C12  AND and OR do not depend on the order of their operands

\* line j of the first text is an AND or OR statement, and the second call
\* is given the text with the operands of that statement exchanged
ExchangedAt(j) ==
    /\ run = 2
    /\ Len(text[j]) = 5 /\ text[j][2] \in {K("AND"), K("OR")}
    /\ parse_line(text[j]).tag = "gate"
    /\ input = [text EXCEPT ![j] = SwapOperands(text[j])]

\* the step is a call of the method of gate g that returned
Evaluates(g) ==
    /\ pc = "loop" /\ pc' = "loop"
    /\ g \in unresolved_gates
    /\ calls'[g] > calls[g]

\* C12: for all operand tokens p and q (wires or literals), replacing the
\* statement p AND q -> w by q AND p -> w (and the same for OR) changes
\* nothing: the statement parses to the same gate, the value w receives is
\* the same whichever operand is passed first, and where every wire has one
\* source the final map of the rewritten circuit is that of the original.
C12_OperandOrderIrrelevant ==
    /\ [](\A j \in DOMAIN text :
            ExchangedAt(j) =>
                /\ parse_line(input[j]) = parse_line(text[j])
                /\ (Ended /\ SingleSource(text)) => SameResult)
    /\ [][\A g \in unresolved_gates :
            (Evaluates(g) /\ g.kind \in {"And", "Or"}) =>
                \A values \in Arguments(g) :
                    wire_values'[g.output] = resolve_output_value(g, values)]_vars

\* the fixture's x AND y -> d rewritten as y AND x -> d gives d = 72 again
C12_Witness ==
    /\ text = simple_circuit
    /\ ExchangedAt(3)
    /\ input # text
    /\ pc = "returned"
    /\ wire_values["d"] = 72
    /\ wire_values = first.map

\* ------------------------------------------------------------------------
\* C13  NOT is an involution on 16 bits

\* C13: for every v in [0, 65535] NotGate returns 65535 - v, a value of
\* [0, 65535], and NotGate applied to that value returns v.
C13_NotInvolution ==
    /\ op \in {"Not", "NotNot"} =>
           /\ out = 65535 - arg
           /\ out >= 0 /\ out <= 65535
    /\ op = "NotNot" => back = arg

\* NOT 123 is 65412 (the fixture's h), and NOT 65412 is 123
C13_Witness ==
    /\ op = "NotNot"
    /\ arg = 123
    /\ out = 65412
    /\ back = 123

\* ------------------------------------------------------------------------
\* C14  LSHIFT k followed by RSHIFT k

\* C14: for every k in [0, 16], RShiftGate(k) applied to what LShiftGate(k)
\* returned for v gives v back when v < 2^(16-k), and gives v mod 2^(16-k),
\* which is not v, when v >= 2^(16-k): the bits shifted past bit 15 are lost.
C14_ShiftRoundTrip ==
    (op = "LShiftRShift" /\ amount <= 16) =>
        /\ arg < 2^(16 - amount) => back = arg
        /\ arg >= 2^(16 - amount) =>
               /\ back = arg % 2^(16 - amount)
               /\ back # arg

\* 4097 = 2^12 + 1 shifted left by 4 keeps 16 only, and comes back as 1
C14_Witness ==
    /\ op = "LShiftRShift"
    /\ amount = 4
    /\ arg = 4097
    /\ out = 16
    /\ back = 1

\* ------------------------------------------------------------------------
\* C19  LSHIFT is a shift modulo 2^16

\* C19: for every v in [0, 65535] and every shift amount k >= 0 LShiftGate
\* returns (v * 2^k) mod 65536, a value of [0, 65535].
C19_LShiftModulo ==
    op \in {"LShift", "LShiftRShift"} =>
        /\ out = (arg * 2^amount) % 65536
        /\ out >= 0 /\ out <= 65535

\* 65535 shifted left by 15 keeps its lowest bit only, as bit 15
C19_Witness ==
    /\ op = "LShift"
    /\ arg = 65535
    /\ amount = 15
    /\ out = 32768

\* ------------------------------------------------------------------------
\* C20  RSHIFT is a floor division

\* C20: for every v in [0, 65535] and every shift amount k >= 0 RShiftGate
\* returns floor(v / 2^k), unmasked, and the result r satisfies 0 <= r <= v.
C20_RShiftFloor ==
    op = "RShift" =>
        /\ out * 2^amount <= arg
        /\ arg < (out + 1) * 2^amount
        /\ out >= 0 /\ out <= arg

\* 456 shifted right by 2 is 114 (the fixture's g)
C20_Witness ==
    /\ op = "RShift"
    /\ arg = 456
    /\ amount = 2
    /\ out = 114

\* ------------------------------------------------------------------------
\* C15  An AND or OR gate with the same operand twice

\* the line is p AND p -> w or p OR p -> w
RepeatedOperand(line) ==
    /\ Len(line) = 5
    /\ line[2] \in {K("AND"), K("OR")}
    /\ line[1] = line[3]
    /\ parse_line(line).tag = "gate"

\* C15: a statement x AND x -> z, x OR x -> z or 5 AND 5 -> z is evaluated
\* as a gate of two operands: resolution does not fail because the operand
\* set collapsed to one element, and once x is resolved z receives
\* x AND x, that is the value of x (123 in the two circuits over x, 5 in
\* 5 AND 5 -> z).
C15_RepeatedOperandEvaluated ==
    \A j \in DOMAIN input :
        RepeatedOperand(input[j]) =>
            /\ pc # "unpack_error"
            /\ (Ended /\ input \in repeated_operand_circuits) =>
                   /\ pc = "returned"
                   /\ wire_values["z"] =
                          IF IsValue(input[j][1]) THEN 5 ELSE 123

\* ------------------------------------------------------------------------
\* C16  No lookup of a wire that has no value yet

\* the step is an iteration of the loop that calls the method of gate g
Calls(g) ==
    /\ pc = "loop" /\ pc' \in {"loop", "unpack_error"}
    /\ g \in unresolved_gates
    /\ calls'[g] > calls[g]

\* C16: a gate's method is called only in a state where every wire operand
\* of the gate is a key of wire_values: the loop never looks up
\* wire_values[wire] for a wire that is not resolved, so no KeyError leaves it.
C16_NoLookupOfUnresolvedWire ==
    /\ [](pc # "key_error")
    /\ [][\A g \in unresolved_gates :
            Calls(g) => \A wire \in g.wire_inputs : wire \in DOMAIN wire_values]_vars

\* x AND y -> x has been evaluated, on the values x and y had by then
C16_Witness ==
    /\ pc = "loop"
    /\ \E g \in DOMAIN calls :
         /\ g.kind = "And" /\ g.wire_inputs = {"x", "y"}
         /\ calls[g] = 1
         /\ g \notin unresolved_gates
         /\ {"x", "y"} \subseteq DOMAIN wire_values

\* ------------------------------------------------------------------------
\* C17  An eligible gate stays eligible and is evaluated

\* every wire operand of the gate is a key of the map
Resolvable(g, map) == \A wire \in g.wire_inputs : wire \in DOMAIN map

\* C17: once every wire operand of an unresolved gate is a key of
\* wire_values the gate stays eligible until it is evaluated, and it is
\* evaluated before the run ends: no run leaves the loop, with the map or
\* with an error, while a gate with all its wire operands resolved is still
\* unresolved.
C17_EligibleStaysAndIsServed ==
    /\ [][\A g \in unresolved_gates :
            (/\ pc = "loop" /\ run' = run
             /\ Resolvable(g, wire_values)
             /\ g \in unresolved_gates')
            => Resolvable(g, wire_values')]_vars
    /\ []((Ended /\ InLoopOrAfter) =>
            \A g \in DOMAIN calls :
                Resolvable(g, wire_values) => g \notin unresolved_gates)

\* ------------------------------------------------------------------------
\* C18  A gate that reads a wire no statement defines

\* the wires the statements of a text define
DefinedWires(t) ==
    LET p == Parsed(t) IN {Target(p[j]) : j \in Accepted(t)}

\* the wires that are read by a gate of the text and defined by no statement
UndefinedWires(t) ==
    UNION {g.wire_inputs : g \in GatesOf(t)} \ DefinedWires(t)

\* the wires of S and the outputs of the gates that read a wire that depends
\* on S, directly or through other gates
RECURSIVE DependingOn(_, _)
DependingOn(t, S) ==
    LET more == S \cup {g.output : g \in {h \in GatesOf(t) :
                                            h.wire_inputs \cap S # {}}}
    IN  IF more = S THEN S ELSE DependingOn(t, more)

\* C18: an input in which some gate reads a wire that no statement defines
\* never returns a map: it always ends in the unsatisfiable-circuit error,
\* and by then every gate that does not depend, directly or transitively,
\* on an undefined wire has been evaluated.
C18_UndefinedWireIsUnsatisfiable ==
    (Accepted(input) = DOMAIN input /\ UndefinedWires(input) # {}) =>
        /\ pc # "returned"
        /\ Ended =>
              /\ pc = "unsat_error"
              /\ \A g \in DOMAIN calls :
                    g.wire_inputs \cap DependingOn(input, UndefinedWires(input)) = {}
                    => (calls[g] >= 1 /\ g \notin unresolved_gates)

\* ------------------------------------------------------------------------
\* C21  The amount of a shift is a literal

\* the line read after 123 -> p
TheLine == input[2]

\* the line is p LSHIFT q -> w or p RSHIFT q -> w with three wire names
ShiftByWire(line) ==
    /\ Len(line) = 5
    /\ IsWire(line[1])
    /\ line[2] \in {K("LSHIFT"), K("RSHIFT")}
    /\ IsWire(line[3])
    /\ line[4] = Arrow
    /\ IsWire(line[5])

\* the line is p LSHIFT <digits> -> w
ShiftByDigits(line) ==
    /\ Len(line) = 5
    /\ IsWire(line[1])
    /\ line[2] = K("LSHIFT")
    /\ IsValue(line[3])
    /\ line[4] = Arrow
    /\ IsWire(line[5])

\* C21: for all wire names p, q, w the lines p LSHIFT q -> w and
\* p RSHIFT q -> w raise the parse error, carrying the line, and produce no
\* gate; the line p LSHIFT <digits> -> w produces one LShiftGate with output
\* w whose shift_amount is the integer the digits denote (2 for 2 and for 02)
\* and whose operand sets hold p only.
C21_ShiftAmountIsLiteral ==
    /\ ShiftByWire(TheLine) =>
           /\ pc \in {"parse", "parse_error"}
           /\ i <= 2
           /\ unresolved_gates = {}
           /\ pc = "parse_error" => err = TheLine
    /\ (ShiftByDigits(TheLine) /\ i > 2) =>
           /\ pc # "parse_error"
           /\ DOMAIN calls \cup unresolved_gates =
                  {[kind |-> "LShift", wire_inputs |-> {TheLine[1].s},
                    static_inputs |-> {}, output |-> TheLine[5].s,
                    shift_amount |-> 2]}

\* p RSHIFT q -> q was rejected: the parse error carries the line
C21_Witness ==
    /\ TheLine = <<W("p"), K("RSHIFT"), W("q"), Arrow, W("q")>>
    /\ pc = "parse_error"
    /\ err = TheLine
    /\ unresolved_gates = {}

\* ------------------------------------------------------------------------
\* C22  The keys of the returned map

\* the wires that are the target of a literal assignment of the text
LiteralTargets(t) ==
    LET p == Parsed(t) IN
    {p[j].wire : j \in {n \in DOMAIN t : p[n].tag = "value"}}

\* the output wires of the gates of the text
GateOutputs(t) == {g.output : g \in GatesOf(t)}

\* C22: on every successful run the keys of the returned map are exactly
\* the targets of the literal assignments together with the outputs of all
\* parsed gates: every defined wire has a value, and a wire that is only an
\* operand, or is not mentioned, is no key.
C22_KeysAreDefinedWires ==
    pc = "returned" =>
        DOMAIN wire_values = LiteralTargets(input) \cup GateOutputs(input)

\* a returned map over one literal target and two gate outputs
C22_Witness ==
    /\ pc = "returned"
    /\ Len(input) = 3
    /\ LiteralTargets(input) = {"x"}
    /\ GateOutputs(input) = {"y", "z"}
    /\ DOMAIN wire_values = {"x", "y", "z"}

\* ------------------------------------------------------------------------
\* C23  The literal shape comes first; operands per gate

\* the line is <digits> -> <wire>
LiteralLine(line) ==
    /\ Len(line) = 3
    /\ IsValue(line[1])
    /\ line[2] = Arrow
    /\ IsWire(line[3])

\* the operand tokens of a statement that parses to a gate
OperandTokens(line) ==
    IF Len(line) = 3 THEN {line[1]}
    ELSE IF Len(line) = 4 THEN {line[2]}
    ELSE IF line[2] \in {K("AND"), K("OR")} THEN {line[1], line[3]}
    ELSE {line[1]}

\* what an operand token denotes: a wire name, or an integer
Denotes(t) ==
    IF IsValue(t) THEN [wire |-> "", value |-> IntOf(t.d)]
    ELSE [wire |-> t.s, value |-> 0 - 1]

\* the gates the call has parsed
ParsedGates == unresolved_gates \cup DOMAIN calls

\* a line <digits> -> <wire> yields the initial assignment (wire, value)
\* and no gate, and every ConnectionGate has one wire operand and no
\* literal operand
LiteralShapeFirst ==
    /\ (LiteralLine(TheLine) /\ i > 2) =>
           /\ initial_values = <<<<"p", 123>>, <<TheLine[3].s, 2>>>>
           /\ ParsedGates = {}
    /\ \A g \in ParsedGates :
           g.kind = "Connection" =>
               Cardinality(g.wire_inputs) = 1 /\ g.static_inputs = {}

\* C23 as stated: a line <digits> -> <wire> always yields an initial
\* assignment and never a ConnectionGate, every ConnectionGate has exactly
\* one wire operand and no literal operand, and every gate receives at
\* evaluation as many operand values as its statement has distinct operand
\* tokens.
C23_ValuesPerDistinctToken ==
    /\ LiteralShapeFirst
    /\ pc = "loop" =>
           \A g \in unresolved_gates :
               Resolvable(g, wire_values) =>
                   \A values \in Arguments(g) :
                       Len(values) = Cardinality(OperandTokens(TheLine))

\* C23, amended: ... and every gate receives at evaluation as many operand
\* values as its statement has distinct operands, two literal tokens that
\* denote the same integer (2 and 02) being one operand.
C23_ValuesPerDistinctOperand ==
    /\ LiteralShapeFirst
    /\ pc = "loop" =>
           \A g \in unresolved_gates :
               Resolvable(g, wire_values) =>
                   \A values \in Arguments(g) :
                       Len(values) =
                           Cardinality({Denotes(t) : t \in OperandTokens(TheLine)})

\* the gate of 2 AND 02 -> q was called with the one value 2
C23_Witness ==
    /\ TheLine = <<N(<<2>>), K("AND"), N(<<0, 2>>), Arrow, W("q")>>
    /\ pc = "unpack_error"
    /\ \E g \in unresolved_gates :
         /\ g.static_inputs = {2} /\ g.wire_inputs = {}
         /\ calls[g] = 1

\* ------------------------------------------------------------------------
\* C24  Success or failure does not depend on the order of picking

\* the wires that get a value whatever the order: S, and the outputs of the
\* gates whose wire operands are all among them
RECURSIVE Closure(_, _)
Closure(t, S) ==
    LET more == S \cup {g.output : g \in {h \in GatesOf(t) :
                                            h.wire_inputs \subseteq S}}
    IN  IF more = S THEN S ELSE Closure(t, more)

\* the gates of the text that no order of picking makes eligible
NeverEligible(t) ==
    LET keys == Closure(t, LiteralTargets(t))
    IN  {g \in GatesOf(t) : ~(g.wire_inputs \subseteq keys)}

\* C24: for a fixed parsed (initial assignments, gate set) either every run
\* of the loop ends with the unsatisfiable-circuit error or every run ends
\* with a returned map, whatever the order in which eligible gates are
\* picked: a second run over the same text ends the way the first did, and
\* the gates still unresolved when the error is raised are the same in
\* every run, namely those that no order makes eligible.
C24_OutcomeIndependentOfOrder ==
    (InLoopOrAfter /\ Ended) =>
        /\ pc \in {"returned", "unsat_error"}
        /\ (run = 2 /\ input = text) => pc = first.kind
        /\ pc = "unsat_error" => unresolved_gates = NeverEligible(input)

\* ------------------------------------------------------------------------
\* C25  Day 1, part2

\* the first n characters of the directions
Prefix(n) == SubSeq(directions, 1, n)

\* C25: part2 walks the string one character at a time from floor 0, "("
\* adding 1, ")" subtracting 1 and any other character nothing; it returns
\* the 1-based position of the first character after which the floor is -1,
\* it returns None exactly when no prefix of the string reaches floor -1,
\* and the floor it has reached once the whole string is consumed is part1
\* of the string.
C25_Part2FirstBasement ==
    /\ walk # "idle" => floor = part1(Prefix(index))
    /\ walk = "returned_index" =>
           /\ position = index /\ position >= 1
           /\ part1(Prefix(position)) = 0 - 1
           /\ \A n \in 0..(position - 1) : part1(Prefix(n)) # 0 - 1
    /\ walk = "returned_None" <=>
           (/\ walk \notin {"idle", "loop"}
            /\ \A n \in 0..Len(directions) : part1(Prefix(n)) # 0 - 1)
    /\ (walk # "idle" /\ index = Len(directions)) => floor = part1(directions)

\* test_part2: "()())" enters the basement at character position 5
C25_Witness ==
    /\ directions = <<"(", ")", "(", ")", ")">>
    /\ walk = "returned_index"
    /\ position = 5
    /\ floor = 0 - 1

\* ------------------------------------------------------------------------
\* C26  Day 6, perform_instruction

\* c lies between a and b, whichever of the two is the smaller
Between(a, b, c) == (a <= c /\ c <= b) \/ (b <= c /\ c <= a)

\* the inclusive rectangle spanned by the two corner points of the
\* instruction
Rectangle ==
    {pos \in Points :
        /\ Between(instruction.point1[1], instruction.point2[1], pos[1])
        /\ Between(instruction.point1[2], instruction.point2[2], pos[2])}

\* the instruction is one of the three kinds of InstructionKind and has
\* been performed n times
Performed(n) ==
    /\ status.calls = n
    /\ instruction.kind \in {"turn on", "turn off", "toggle"}

\* every light outside the rectangle keeps its previous state
OutsideKept ==
    \A pos \in DOMAIN before \ Rectangle :
        pos \in DOMAIN lights /\ lights[pos] = before[pos]

\* pos comes before other in the order of itertools.product
Precedes(pos, other) ==
    pos[1] < other[1] \/ (pos[1] = other[1] /\ pos[2] < other[2])

\* the first position of the rectangle, in that order, that was no light
\* of the grid
FirstMissing ==
    CHOOSE pos \in Rectangle \ DOMAIN before :
        \A other \in Rectangle \ DOMAIN before :
            pos = other \/ Precedes(pos, other)

\* C26 as stated: perform_instruction changes only the lights inside the
\* inclusive rectangle spanned by the two corner points, given in either
\* order: after turn on every light in the rectangle is on, after turn off
\* every light in it is off, after toggle every light in it has the negation
\* of its previous state, every light outside the rectangle keeps its
\* previous state, and the same toggle applied twice restores the grid.
C26_OnlyTheRectangle ==
    /\ Performed(1) =>
           /\ OutsideKept
           /\ \A pos \in Rectangle \cap DOMAIN before :
                  /\ instruction.kind = "turn on" => lights[pos] = TRUE
                  /\ instruction.kind = "turn off" => lights[pos] = FALSE
                  /\ instruction.kind = "toggle" => lights[pos] = ~before[pos]
    /\ (Performed(2) /\ instruction.kind = "toggle") => lights = before

\* C26 as amended: perform_instruction changes only the positions inside
\* the inclusive rectangle spanned by the two corner points, given in either
\* order, and every light outside it keeps its previous state.  After turn
\* on every position of the rectangle is a light that is on and after turn
\* off one that is off, those beyond the grid having become lights of the
\* grid.  After a toggle whose rectangle lies within the grid every light in
\* it has the negation of its previous state; a toggle whose rectangle
\* reaches beyond the grid raises KeyError, having negated exactly the
\* lights of the rectangle that come before the first position beyond the
\* grid in the order of itertools.product.  The same toggle applied twice
\* restores the grid in either case.
C26_OnlyTheRectangleWithinTheGrid ==
    /\ Performed(1) =>
           /\ OutsideKept
           /\ DOMAIN lights \subseteq (DOMAIN before \cup Rectangle)
           /\ instruction.kind = "turn on" =>
                  /\ status.raised = "none"
                  /\ \A pos \in Rectangle :
                         pos \in DOMAIN lights /\ lights[pos] = TRUE
           /\ instruction.kind = "turn off" =>
                  /\ status.raised = "none"
                  /\ \A pos \in Rectangle :
                         pos \in DOMAIN lights /\ lights[pos] = FALSE
           /\ (instruction.kind = "toggle"
                  /\ Rectangle \subseteq DOMAIN before) =>
                  /\ status.raised = "none"
                  /\ DOMAIN lights = DOMAIN before
                  /\ \A pos \in Rectangle : lights[pos] = ~before[pos]
           /\ (instruction.kind = "toggle"
                  /\ ~(Rectangle \subseteq DOMAIN before)) =>
                  /\ status.raised = "KeyError"
                  /\ DOMAIN lights = DOMAIN before
                  /\ \A pos \in Rectangle \cap DOMAIN before :
                         lights[pos] = IF Precedes(pos, FirstMissing)
                                       THEN ~before[pos]
                                       ELSE before[pos]
    /\ (Performed(2) /\ instruction.kind = "toggle") => lights = before

\* "toggle 1,1 through 0,1", its corners in descending order, has turned
\* the light at 0,1 off and the light at 1,1 on and left the lit light at
\* 0,0 alone
C26_Witness ==
    /\ Performed(1)
    /\ instruction = [kind |-> "toggle", point1 |-> <<1, 1>>,
                      point2 |-> <<0, 1>>]
    /\ status.raised = "none"
    /\ before[<<0, 1>>] /\ ~lights[<<0, 1>>]
    /\ ~before[<<1, 1>>] /\ lights[<<1, 1>>]
    /\ before[<<0, 0>>] /\ lights[<<0, 0>>]

\* ------------------------------------------------------------------------
\* C27  Day 6, perform_instruction2

\* the number of lights the rectangle names
Area == Cardinality(Rectangle)

\* every light's brightness is at least 0
NoNegativeBrightness == \A pos \in DOMAIN lights : lights[pos] >= 0

\* the positions of the rectangle that perform_instruction2 reached: all
\* of them, or those before the first one beyond the grid
Reached ==
    IF Rectangle \subseteq DOMAIN before THEN Rectangle
    ELSE {pos \in Rectangle : Precedes(pos, FirstMissing)}

\* the light at pos is 1 lower than it was, or still at 0
LoweredToZeroAtMost(pos) ==
    lights[pos] = IF before[pos] = 0 THEN 0 ELSE before[pos] - 1

\* C27 as stated: under perform_instruction2, on a grid that started all
\* zero, every light's brightness is >= 0 after any instruction; turn on
\* raises the total brightness by exactly the rectangle's area, toggle by
\* exactly twice the area, and turn off lowers each light in the rectangle
\* by 1 except lights already at 0, which stay at 0.
C27_BrightnessByArea ==
    /\ NoNegativeBrightness
    /\ Performed(1) =>
           /\ instruction.kind = "turn on" =>
                  total_brightness(lights) = total_brightness(before) + Area
           /\ instruction.kind = "toggle" =>
                  total_brightness(lights) =
                      total_brightness(before) + 2 * Area
           /\ instruction.kind = "turn off" =>
                  \A pos \in Rectangle \cap DOMAIN before :
                      LoweredToZeroAtMost(pos)

\* C27 as amended: under perform_instruction2, on a grid that started all
\* zero, every light's brightness is >= 0 after any instruction.  For a
\* rectangle that lies within the grid, turn on raises the total brightness
\* by exactly the rectangle's area, toggle by exactly twice the area, and
\* turn off lowers each light in the rectangle by 1 except lights already
\* at 0, which stay at 0.  For a rectangle that reaches beyond the grid the
\* instruction raises KeyError at the first position beyond the grid, in
\* the order of itertools.product, and the same holds with the positions
\* before that one in place of the rectangle; the lights after it keep
\* their brightness.
C27_BrightnessByAreaWithinTheGrid ==
    /\ NoNegativeBrightness
    /\ Performed(1) =>
           /\ status.raised =
                  IF Rectangle \subseteq DOMAIN before THEN "none"
                  ELSE "KeyError"
           /\ DOMAIN lights = DOMAIN before
           /\ instruction.kind = "turn on" =>
                  total_brightness(lights) =
                      total_brightness(before) + Cardinality(Reached)
           /\ instruction.kind = "toggle" =>
                  total_brightness(lights) =
                      total_brightness(before) + 2 * Cardinality(Reached)
           /\ instruction.kind = "turn off" =>
                  \A pos \in Reached : LoweredToZeroAtMost(pos)
           /\ \A pos \in DOMAIN before \ Reached : lights[pos] = before[pos]

\* "turn off 0,0 through 0,1" has left the light at 0,0 at brightness 0
\* and lowered the light at 0,1 from 2 to 1
C27_Witness ==
    /\ Performed(1)
    /\ instruction = [kind |-> "turn off", point1 |-> <<0, 0>>,
                      point2 |-> <<0, 1>>]
    /\ status.raised = "none"
    /\ before[<<0, 0>>] = 0 /\ lights[<<0, 0>>] = 0
    /\ before[<<0, 1>>] = 2 /\ lights[<<0, 1>>] = 1

====
